---- MODULE Spec2Model ----
(***************************************************************************)
(* Model of the review store and SM-2 scheduler of                         *)
(* src/src/spaced_repetition.py (SM2Algorithm, LearningDataManager), of    *)
(* the quiz generators of src/src/quiz_engine.py (QuizEngine) and of the   *)
(* correction service of src/src/broken_english.py.                        *)
(*                                                                         *)
(* Numbers.  ease_factor is a Python float that only ever holds 2.5 plus   *)
(* multiples of 0.02, so it is carried here in hundredths (2.5 is 250).    *)
(* Binary floating point drifts from these decimals by far less than 1e-9, *)
(* which can change round() only when interval * ease_factor is an exact   *)
(* decimal tie (x.5); at a tie the model allows both neighbours.           *)
(* correct_rate is a float quotient and is carried as the pair             *)
(* <<numerator, denominator>> of the division the code performs.           *)
(*                                                                         *)
(* Dates.  strftime("%Y-%m-%d") keeps the calendar day of datetime.now()   *)
(* and drops the time of day, so a date is a day number.  Every            *)
(* datetime.now() in a handler is a separate clock read: the day of a      *)
(* later read is the day of the earlier one or the next day.               *)
(***************************************************************************)
EXTENDS Integers, Sequences, FiniteSets, TLC

\* ---------------------------------------------------------------- bounds
MaxReviews == 2      \* record_review calls accepted in one behaviour of Spec
MaxDay == 1          \* last day the clock reaches
MaxLong == 10        \* record_review calls accepted in one behaviour of SpecLong
MaxValid == 4        \* record_review calls accepted in one behaviour of SpecValid
MaxFileReviews == 2  \* total_reviews an instance reaches in SpecFile
MaxTotal == 2        \* answers submitted in one behaviour of SpecSession

\* ------------------------------------------------------ program constants
DefaultEase == 250   \* "ease_factor": 2.5
DefaultInterval == 1 \* "interval": 1
MinEase == 130       \* max(1.3, new_ease_factor)
PassQuality == 3     \* if quality < 3
FirstInterval == 1   \* repetitions == 0: new_interval = 1
SecondInterval == 6  \* repetitions == 1: new_interval = 6
NumChoices == 4      \* num_choices: int = 4
PoolSize == 50       \* candidates.head(50)
SimilarNum == 3      \* _generate_similar_words(key_word, num=3)
MinWordLen == 3      \* \w{3,10}
MaxWordLen == 10     \* \w{3,10}

\* ------------------------------------------------------------ input sets
Ids == {"expr_001", "expr_002"}
None == "None"
EmptyMeta == "{}"
\* (text, metadata) arguments offered to add_expression
AddInputs == {<<"How are you?", None>>, <<"Thank you very much.", "{episode: 1}">>}
\* record_review takes any int: one rating below the range, a failing one,
\* the lowest passing one, a perfect one and one above the range
Qualities == {-1, 2, 3, 5, 6}
ValidQualities == 0..5
\* the long runs: a failing, the lowest passing and a perfect rating
LongQualities == {2, 3, 5}
NoDate == -1                       \* a date that is None
\* dates asked of get_due_expressions: None (today) and the day after the last
Dates == {NoDate, MaxDay + 1}

VARIABLES
    expressions,   \* self.data["expressions"]: id -> record
    expr_order,    \* insertion order of the keys of that dict
    statistics,    \* self.data["statistics"]
    disk,          \* content of the file at data_path, or NoFile
    today,         \* calendar day the clock shows
    result,        \* outcome of the latest call
    other,         \* self.data of a second LearningDataManager on the same path
    corpus,        \* QuizEngine.df: the rows of the expression DataFrame
    quiz,          \* outcome of the latest generate_quiz call
    quiz_state     \* st.session_state.quiz_state, with the submitted answer

vars ==
    <<expressions, expr_order, statistics, disk, today, result, other, corpus, quiz,
      quiz_state>>

\* ------------------------------------------------------------ arithmetic
Max(a, b) == IF a >= b THEN a ELSE b

\* round(n / d) for n >= 0, d > 0: nearest integer; both neighbours at a tie
RoundOutcomes(n, d) ==
    LET q == n \div d
        r == n % d
    IN  IF 2 * r < d THEN {q}
        ELSE IF 2 * r > d THEN {q + 1}
        ELSE {q, q + 1}

RECURSIVE SumSeq(_)
SumSeq(s) == IF s = <<>> THEN 0 ELSE Head(s) + SumSeq(Tail(s))

RECURSIVE SumOver(_, _)
SumOver(f, S) ==
    IF S = {} THEN 0
    ELSE LET x == CHOOSE y \in S : TRUE
         IN  f[x] + SumOver(f, S \ {x})

\* --------------------------------------------------------- SM2Algorithm
\* mutant: the quadratic term of the adjustment is missing
EaseDelta_linear(quality) == 10 - (5 - quality) * 8

\* ease_factor + (0.1 - (5 - quality) * (0.08 + (5 - quality) * 0.02)), in hundredths
EaseDelta(quality) == 10 - (5 - quality) * (8 + (5 - quality) * 2)

\* mutant: a failed recall also lowers the ease factor by 0.2
calculate_next_interval_penalised(quality, repetitions, ease_factor, interval) ==
    IF quality < PassQuality
    THEN {[interval |-> 1, ease_factor |-> Max(MinEase, ease_factor - 20),
           repetitions |-> 0]}
    ELSE LET new_ease_factor == Max(MinEase, ease_factor + EaseDelta(quality))
             new_intervals ==
                 IF repetitions = 0 THEN {FirstInterval}
                 ELSE IF repetitions = 1 THEN {SecondInterval}
                 ELSE RoundOutcomes(interval * new_ease_factor, 100)
         IN  {[interval |-> i, ease_factor |-> new_ease_factor,
               repetitions |-> repetitions + 1] : i \in new_intervals}

\* mutant: the interval is multiplied by the ease factor before its update
calculate_next_interval_oldEase(quality, repetitions, ease_factor, interval) ==
    IF quality < PassQuality
    THEN {[interval |-> 1, ease_factor |-> ease_factor, repetitions |-> 0]}
    ELSE LET new_ease_factor == Max(MinEase, ease_factor + EaseDelta(quality))
             new_intervals ==
                 IF repetitions = 0 THEN {FirstInterval}
                 ELSE IF repetitions = 1 THEN {SecondInterval}
                 ELSE RoundOutcomes(interval * ease_factor, 100)
         IN  {[interval |-> i, ease_factor |-> new_ease_factor,
               repetitions |-> repetitions + 1] : i \in new_intervals}

\* mutant: the ease factor is not clamped at 1.3
calculate_next_interval_noFloor(quality, repetitions, ease_factor, interval) ==
    IF quality < PassQuality
    THEN {[interval |-> 1, ease_factor |-> ease_factor, repetitions |-> 0]}
    ELSE LET new_ease_factor == ease_factor + EaseDelta(quality)
             new_intervals ==
                 IF repetitions = 0 THEN {FirstInterval}
                 ELSE IF repetitions = 1 THEN {SecondInterval}
                 ELSE RoundOutcomes(interval * new_ease_factor, 100)
         IN  {[interval |-> i, ease_factor |-> new_ease_factor,
               repetitions |-> repetitions + 1] : i \in new_intervals}

\* mutant: a failed recall restarts the interval but keeps the repetition count
calculate_next_interval_keepReps(quality, repetitions, ease_factor, interval) ==
    IF quality < PassQuality
    THEN {[interval |-> 1, ease_factor |-> ease_factor, repetitions |-> repetitions]}
    ELSE LET new_ease_factor == Max(MinEase, ease_factor + EaseDelta(quality))
             new_intervals ==
                 IF repetitions = 0 THEN {FirstInterval}
                 ELSE IF repetitions = 1 THEN {SecondInterval}
                 ELSE RoundOutcomes(interval * new_ease_factor, 100)
         IN  {[interval |-> i, ease_factor |-> new_ease_factor,
               repetitions |-> repetitions + 1] : i \in new_intervals}

\* mutant: the second pass is scheduled by the ease factor like the later ones
calculate_next_interval_noSecondTier(quality, repetitions, ease_factor, interval) ==
    IF quality < PassQuality
    THEN {[interval |-> 1, ease_factor |-> ease_factor, repetitions |-> 0]}
    ELSE LET new_ease_factor == Max(MinEase, ease_factor + EaseDelta(quality))
             new_intervals ==
                 IF repetitions = 0 THEN {FirstInterval}
                 ELSE RoundOutcomes(interval * new_ease_factor, 100)
         IN  {[interval |-> i, ease_factor |-> new_ease_factor,
               repetitions |-> repetitions + 1] : i \in new_intervals}

\* mutant: from the third pass on the interval is the rounded ease factor alone
calculate_next_interval_easeOnly(quality, repetitions, ease_factor, interval) ==
    IF quality < PassQuality
    THEN {[interval |-> 1, ease_factor |-> ease_factor, repetitions |-> 0]}
    ELSE LET new_ease_factor == Max(MinEase, ease_factor + EaseDelta(quality))
             new_intervals ==
                 IF repetitions = 0 THEN {FirstInterval}
                 ELSE IF repetitions = 1 THEN {SecondInterval}
                 ELSE RoundOutcomes(8 * new_ease_factor, 100)
         IN  {[interval |-> i, ease_factor |-> new_ease_factor,
               repetitions |-> repetitions + 1] : i \in new_intervals}

calculate_next_interval(quality, repetitions, ease_factor, interval) ==
    IF quality < PassQuality
    THEN {[interval |-> 1, ease_factor |-> ease_factor, repetitions |-> 0]}
    ELSE LET new_ease_factor == Max(MinEase, ease_factor + EaseDelta(quality))
             new_repetitions == repetitions + 1
             new_intervals ==
                 IF repetitions = 0 THEN {FirstInterval}
                 ELSE IF repetitions = 1 THEN {SecondInterval}
                 ELSE RoundOutcomes(interval * new_ease_factor, 100)
         IN  {[interval |-> i, ease_factor |-> new_ease_factor,
               repetitions |-> new_repetitions] : i \in new_intervals}

\* --------------------------------------------------- LearningDataManager
EmptyStatistics ==
    [total_reviews |-> 0, correct_rate |-> <<0, 1>>, total_expressions |-> 0]

EmptyData == [expressions |-> <<>>, expr_order |-> <<>>, statistics |-> EmptyStatistics]

\* The file at data_path.  A written file is the JSON text of self.data: the
\* members of the "expressions" object in the order json.dump emits them, and
\* the "statistics" object.  The values of a record (str, int, float, None,
\* list of int, a metadata dict with str keys) are written by json.dump and
\* read back by json.load unchanged, so a member carries the record itself.
NoFile == [state |-> "absent", members |-> <<>>, statistics |-> EmptyStatistics]
\* what open(path, 'w') leaves when nothing, or only a part, was written after it
Truncated == [state |-> "truncated", members |-> <<>>, statistics |-> EmptyStatistics]

\* json.dump of a dict: one member per key, in insertion order
DumpMembers(exprs, order) ==
    [k \in 1..Len(order) |-> [key |-> order[k], value |-> exprs[order[k]]]]

\* json.load of an object: the keys in the order they first occur
RECURSIVE LoadOrder(_)
LoadOrder(members) ==
    IF members = <<>> THEN <<>>
    ELSE LET front == LoadOrder(SubSeq(members, 1, Len(members) - 1))
             key == members[Len(members)].key
         IN  IF \E k \in 1..Len(front) : front[k] = key
             THEN front
             ELSE Append(front, key)

\* json.load of an object: each key bound to the value of its last member
LoadDict(members) ==
    LET keys == {members[k].key : k \in 1..Len(members)}
        last(key) == CHOOSE k \in 1..Len(members) :
                         /\ members[k].key = key
                         /\ \A j \in (k + 1)..Len(members) : members[j].key # key
    IN  [key \in keys |-> members[last(key)].value]

\* mutant: the file is written before the statistics block has run
SaveData_staleStatistics(exprs, order, stats) ==
    [state |-> "written", members |-> DumpMembers(exprs, order),
     statistics |-> statistics]

\* _load_data: the parsed file, or the empty structure when it is absent
LoadData(file) ==
    IF file.state = "absent" THEN EmptyData
    ELSE [expressions |-> LoadDict(file.members),
          expr_order |-> LoadOrder(file.members),
          statistics |-> file.statistics]

\* _save_data: the whole of self.data is dumped to the file
SaveData(exprs, order, stats) ==
    [state |-> "written", members |-> DumpMembers(exprs, order), statistics |-> stats]

Known == DOMAIN expressions

NoResult ==
    [op |-> "init", id |-> "", quality |-> 0, status |-> "ok", saved |-> FALSE,
     date |-> NoDate, due |-> <<>>]

\* no second LearningDataManager has been constructed
NoInstance ==
    [open |-> FALSE, expressions |-> <<>>, expr_order |-> <<>>,
     statistics |-> EmptyStatistics]

\* a row of the DataFrame: the two columns the engine reads
Row(clean_subtitle, translation) ==
    ("clean_subtitle" :> clean_subtitle) @@ ("Machine Translation" :> translation)

EmptyRow == Row(<<>>, <<>>)

\* no generate_quiz call has been made
NoQuiz ==
    [quiz_type |-> "", item_given |-> FALSE, detector |-> FALSE, row |-> EmptyRow,
     kind |-> "", outcome |-> "init", type |-> "", question |-> <<>>,
     choices |-> <<>>, correct_index |-> 0, correct_answer |-> <<>>]

\* the store right after LearningDataManager(data_path) on a path without a file
InitStore ==
    /\ expressions = LoadData(NoFile).expressions
    /\ expr_order = LoadData(NoFile).expr_order
    /\ statistics = LoadData(NoFile).statistics
    /\ disk = NoFile
    /\ today = 0
    /\ result = NoResult
    /\ other = NoInstance

\* a generator returned None
NoneOutcome ==
    [outcome |-> "None", type |-> "", question |-> <<>>, choices |-> <<>>,
     correct_index |-> 0, correct_answer |-> <<>>]

\* initialize_session_state: quiz_state; quiz_answer is the index the radio
\* widget "quiz_answer" held at the latest submit, event the latest button
NoSession ==
    [current_quiz |-> NoneOutcome, answered |-> FALSE, score |-> 0, total |-> 0,
     quiz_answer |-> 0, event |-> "init"]

Init ==
    /\ InitStore
    /\ corpus = <<>>
    /\ quiz = NoQuiz
    /\ quiz_state = NoSession

NewRecord(text, metadata, next_day, created_day) ==
    [text |-> text,
     ease_factor |-> DefaultEase,
     interval |-> DefaultInterval,
     repetitions |-> 0,
     next_review |-> next_day,
     last_review |-> NoDate,
     quality_history |-> <<>>,
     created_at |-> created_day,
     metadata |-> IF metadata = None THEN EmptyMeta ELSE metadata]

\* add_expression past its early return; clock reads at "next_review" (today)
\* and at "created_at" (day2)
AddNew(expression_id, text, metadata, day2) ==
    LET exprs == [i \in Known \cup {expression_id} |->
                     IF i = expression_id
                     THEN NewRecord(text, metadata, today, day2)
                     ELSE expressions[i]]
        order == IF expression_id \in Known THEN expr_order
                 ELSE Append(expr_order, expression_id)
        stats == [statistics EXCEPT !.total_expressions = Cardinality(DOMAIN exprs)]
    IN  /\ expressions' = exprs
        /\ expr_order' = order
        /\ statistics' = stats
        /\ disk' = SaveData(exprs, order, stats)
        /\ today' = day2
        /\ result' = [NoResult EXCEPT !.op = "add_expression",
                                      !.id = expression_id, !.saved = TRUE]

\* mutant: no check for an existing id, the record is overwritten
add_expression_overwrite(expression_id, text, metadata, day2) ==
    AddNew(expression_id, text, metadata, day2)

add_expression(expression_id, text, metadata, day2) ==
    IF expression_id \in Known
    THEN /\ result' = [NoResult EXCEPT !.op = "add_expression", !.id = expression_id]
         /\ UNCHANGED <<expressions, expr_order, statistics, disk, today>>
    ELSE AddNew(expression_id, text, metadata, day2)

\* the statistics block of record_review, over the updated expressions
\* mutant: the statistics block recomputes the rate and leaves the counter
UpdateStatistics_noCount(stats, exprs) ==
    LET ids == DOMAIN exprs
        total_quality == SumOver([i \in ids |-> SumSeq(exprs[i].quality_history)], ids)
        total_count == SumOver([i \in ids |-> Len(exprs[i].quality_history)], ids)
    IN  [stats EXCEPT
            !.correct_rate = IF total_count > 0
                             THEN <<total_quality, total_count * 5>>
                             ELSE <<0, 1>>]

UpdateStatistics(stats, exprs) ==
    LET ids == DOMAIN exprs
        total_quality == SumOver([i \in ids |-> SumSeq(exprs[i].quality_history)], ids)
        total_count == SumOver([i \in ids |-> Len(exprs[i].quality_history)], ids)
    IN  [stats EXCEPT
            !.total_reviews = @ + 1,
            !.correct_rate = IF total_count > 0
                             THEN <<total_quality, total_count * 5>>
                             ELSE <<0, 1>>]

\* mutant: the history is replaced by the latest rating instead of extended
UpdateRecord_resetHistory(expr, out, quality, day1, day2) ==
    [expr EXCEPT
        !.interval = out.interval,
        !.ease_factor = out.ease_factor,
        !.repetitions = out.repetitions,
        !.next_review = day1 + out.interval,
        !.last_review = day2,
        !.quality_history = <<quality>>]

\* mutant: the update block also stamps created_at with the review day
UpdateRecord_touchCreated(expr, out, quality, day1, day2) ==
    [expr EXCEPT
        !.interval = out.interval,
        !.ease_factor = out.ease_factor,
        !.repetitions = out.repetitions,
        !.next_review = day1 + out.interval,
        !.last_review = day2,
        !.quality_history = Append(@, quality),
        !.created_at = day2]

\* the record after the "데이터 업데이트" block; clock reads at next_review
\* (day1) and at last_review (day2)
UpdateRecord(expr, out, quality, day1, day2) ==
    [expr EXCEPT
        !.interval = out.interval,
        !.ease_factor = out.ease_factor,
        !.repetitions = out.repetitions,
        !.next_review = day1 + out.interval,
        !.last_review = day2,
        !.quality_history = Append(@, quality)]

\* record_review past its KeyError check
ReviewKnown(expression_id, quality, day2) ==
    \E out \in calculate_next_interval(quality,
                    expressions[expression_id].repetitions,
                    expressions[expression_id].ease_factor,
                    expressions[expression_id].interval) :
        LET exprs == [expressions EXCEPT ![expression_id] =
                         UpdateRecord(@, out, quality, today, day2)]
            stats == UpdateStatistics(statistics, exprs)
        IN  /\ expressions' = exprs
            /\ statistics' = stats
            /\ disk' = SaveData(exprs, expr_order, stats)
            /\ today' = day2
            /\ result' = [NoResult EXCEPT !.op = "record_review",
                              !.id = expression_id, !.quality = quality,
                              !.saved = TRUE]
            /\ UNCHANGED expr_order

\* mutant: an unknown id gets a default record instead of a KeyError
record_review_autocreate(expression_id, quality, day2) ==
    IF expression_id \notin Known
    THEN LET exprs == [i \in Known \cup {expression_id} |->
                          IF i = expression_id
                          THEN NewRecord("", None, today, day2)
                          ELSE expressions[i]]
             order == Append(expr_order, expression_id)
         IN  /\ expressions' = exprs
             /\ expr_order' = order
             /\ disk' = SaveData(exprs, order, statistics)
             /\ today' = day2
             /\ result' = [NoResult EXCEPT !.op = "record_review",
                               !.id = expression_id, !.quality = quality,
                               !.saved = TRUE]
             /\ UNCHANGED statistics
    ELSE ReviewKnown(expression_id, quality, day2)

record_review(expression_id, quality, day2) ==
    IF expression_id \notin Known
    THEN /\ result' = [NoResult EXCEPT !.op = "record_review", !.id = expression_id,
                                       !.status = "KeyError"]
         /\ UNCHANGED <<expressions, expr_order, statistics, disk, today>>
    ELSE ReviewKnown(expression_id, quality, day2)

\* list.sort(key=days_overdue, reverse=True): stable, larger keys first
RECURSIVE InsertDesc(_, _)
InsertDesc(sorted, x) ==
    IF sorted = <<>> THEN <<x>>
    ELSE IF Head(sorted).days_overdue >= x.days_overdue
         THEN <<Head(sorted)>> \o InsertDesc(Tail(sorted), x)
         ELSE <<x>> \o sorted

\* mutant: reverse=True is missing, smaller keys first
RECURSIVE InsertAsc(_, _)
InsertAsc(sorted, x) ==
    IF sorted = <<>> THEN <<x>>
    ELSE IF Head(sorted).days_overdue <= x.days_overdue
         THEN <<Head(sorted)>> \o InsertAsc(Tail(sorted), x)
         ELSE <<x>> \o sorted

RECURSIVE SortAsc(_)
SortAsc(list) ==
    IF list = <<>> THEN <<>>
    ELSE InsertAsc(SortAsc(SubSeq(list, 1, Len(list) - 1)), list[Len(list)])

RECURSIVE SortDesc(_)
SortDesc(list) ==
    IF list = <<>> THEN <<>>
    ELSE InsertDesc(SortDesc(SubSeq(list, 1, Len(list) - 1)), list[Len(list)])

\* the loop of get_due_expressions over the dict in insertion order
RECURSIVE DueList(_, _, _)
DueList(order, exprs, target_date) ==
    IF order = <<>> THEN <<>>
    ELSE LET expr_id == Head(order)
             expr == exprs[expr_id]
             rest == DueList(Tail(order), exprs, target_date)
         IN  IF expr.next_review <= target_date
             THEN <<[id |-> expr_id, text |-> expr.text,
                     days_overdue |-> target_date - expr.next_review,
                     metadata |-> expr.metadata]>> \o rest
             ELSE rest

get_due_expressions(date) ==
    LET target_date == IF date = NoDate THEN today ELSE date
    IN  SortDesc(DueList(expr_order, expressions, target_date))

GetDue(date) ==
    /\ result' = [NoResult EXCEPT !.op = "get_due_expressions", !.date = date,
                                  !.due = get_due_expressions(date)]
    /\ UNCHANGED <<expressions, expr_order, statistics, disk, today>>

\* the calendar day advances between calls
Tick ==
    /\ today < MaxDay
    /\ today' = today + 1
    /\ UNCHANGED <<expressions, expr_order, statistics, disk, result>>

\* days a later clock read of the same handler can show
LaterReads == {d \in {today, today + 1} : d <= MaxDay}

\* a call on the one store leaves the second instance and the quiz engine alone
StoreOnly == UNCHANGED <<other, corpus, quiz, quiz_state>>

Next ==
    \/ \E id \in Ids, input \in AddInputs, day2 \in LaterReads :
           add_expression(id, input[1], input[2], day2) /\ StoreOnly
    \/ \E id \in Ids, quality \in Qualities, day2 \in LaterReads :
           /\ statistics.total_reviews < MaxReviews
           /\ record_review(id, quality, day2)
           /\ StoreOnly
    \/ \E date \in Dates : GetDue(date) /\ StoreOnly
    \/ Tick /\ StoreOnly

Spec == Init /\ [][Next]_vars

\* long runs of reviews of one record within one day
NextLong ==
    \/ \E input \in AddInputs :
           add_expression("expr_001", input[1], input[2], today) /\ StoreOnly
    \/ \E quality \in LongQualities :
           /\ statistics.total_reviews < MaxLong
           /\ record_review("expr_001", quality, today)
           /\ StoreOnly

SpecLong == Init /\ [][NextLong]_vars

\* every rating of the documented range, on one record within one day
NextValid ==
    \/ \E input \in AddInputs :
           add_expression("expr_001", input[1], input[2], today) /\ StoreOnly
    \/ \E quality \in ValidQualities :
           /\ statistics.total_reviews < MaxValid
           /\ record_review("expr_001", quality, today)
           /\ StoreOnly

SpecValid == Init /\ [][NextValid]_vars

\* ------------------------------------------- the file and a second instance
\* what a write that raises leaves at data_path: open() raised and the file is
\* as it was, or open() had emptied it and json.dump did not complete
FailedWrites == {disk, Truncated}

\* add_expression past its early return when _save_data raises: self.data
\* already holds the new record and the new total_expressions
AddNewWriteFails(expression_id, text, metadata, file) ==
    LET exprs == [i \in Known \cup {expression_id} |->
                     IF i = expression_id
                     THEN NewRecord(text, metadata, today, today)
                     ELSE expressions[i]]
        order == Append(expr_order, expression_id)
        stats == [statistics EXCEPT !.total_expressions = Cardinality(DOMAIN exprs)]
    IN  /\ expression_id \notin Known
        /\ expressions' = exprs
        /\ expr_order' = order
        /\ statistics' = stats
        /\ disk' = file
        /\ result' = [NoResult EXCEPT !.op = "add_expression",
                                      !.id = expression_id, !.status = "OSError"]
        /\ UNCHANGED today

\* record_review past its KeyError check when _save_data raises: the record
\* and the statistics in self.data are already updated
ReviewKnownWriteFails(expression_id, quality, file) ==
    /\ expression_id \in Known
    /\ \E out \in calculate_next_interval(quality,
                      expressions[expression_id].repetitions,
                      expressions[expression_id].ease_factor,
                      expressions[expression_id].interval) :
           LET exprs == [expressions EXCEPT ![expression_id] =
                            UpdateRecord(@, out, quality, today, today)]
           IN  /\ expressions' = exprs
               /\ statistics' = UpdateStatistics(statistics, exprs)
    /\ disk' = file
    /\ result' = [NoResult EXCEPT !.op = "record_review", !.id = expression_id,
                                  !.quality = quality, !.status = "OSError"]
    /\ UNCHANGED <<expr_order, today>>

\* LearningDataManager(data_path) again, replacing the instance in use;
\* json.load raises on a file that holds no complete JSON text
Construct ==
    IF disk.state = "truncated"
    THEN /\ result' = [NoResult EXCEPT !.op = "construct",
                                       !.status = "JSONDecodeError"]
         /\ UNCHANGED <<expressions, expr_order, statistics, disk, today>>
    ELSE /\ expressions' = LoadData(disk).expressions
         /\ expr_order' = LoadData(disk).expr_order
         /\ statistics' = LoadData(disk).statistics
         /\ result' = [NoResult EXCEPT !.op = "construct"]
         /\ UNCHANGED <<disk, today>>

\* a second LearningDataManager is constructed on the same path
OpenOther ==
    /\ ~other.open
    /\ disk.state # "truncated"
    /\ other' = [open |-> TRUE,
                 expressions |-> LoadData(disk).expressions,
                 expr_order |-> LoadData(disk).expr_order,
                 statistics |-> LoadData(disk).statistics]
    /\ result' = [NoResult EXCEPT !.op = "open_other"]
    /\ UNCHANGED <<expressions, expr_order, statistics, disk, today>>

\* the next call goes to the other instance: the two change roles
Switch ==
    /\ other.open
    /\ expressions' = other.expressions
    /\ expr_order' = other.expr_order
    /\ statistics' = other.statistics
    /\ other' = [open |-> TRUE, expressions |-> expressions,
                 expr_order |-> expr_order, statistics |-> statistics]
    /\ result' = [NoResult EXCEPT !.op = "switch"]
    /\ UNCHANGED <<disk, today>>

FileText == "How are you?"
\* a failing and a perfect rating
FileQualities == {2, 5}

NextFile ==
    \/ \E id \in Ids :
           add_expression(id, FileText, None, today) /\ StoreOnly
    \/ \E id \in Ids, quality \in FileQualities :
           /\ statistics.total_reviews < MaxFileReviews
           /\ record_review(id, quality, today)
           /\ StoreOnly
    \/ \E id \in Ids, file \in FailedWrites :
           AddNewWriteFails(id, FileText, None, file) /\ StoreOnly
    \/ \E id \in Ids, quality \in FileQualities, file \in FailedWrites :
           /\ statistics.total_reviews < MaxFileReviews
           /\ ReviewKnownWriteFails(id, quality, file)
           /\ StoreOnly
    \/ Construct /\ StoreOnly
    \/ OpenOther /\ UNCHANGED <<corpus, quiz, quiz_state>>
    \/ Switch /\ UNCHANGED <<corpus, quiz, quiz_state>>

SpecFile == Init /\ [][NextFile]_vars

\* ============================================================ QuizEngine
\* Strings.  A str is carried as the sequence of its characters, each a
\* one-character string, so that slicing, searching, splitting and
\* str.replace are computed on characters as Python does.  Offsets of the
\* source are 0-based, positions of a sequence here are 1-based.
\* A quiz dict is carried without its "hint" and "explanation" entries, which
\* are formatted from the same values; the "question" of a grammar quiz is
\* carried as the sentence it quotes.

Min(a, b) == IF a <= b THEN a ELSE b
Least(S) == CHOOSE x \in S : \A y \in S : x <= y

LowerCase ==
    <<"a", "b", "c", "d", "e", "f", "g", "h", "i", "j", "k", "l", "m", "n",
     "o", "p", "q", "r", "s", "t", "u", "v", "w", "x", "y", "z">>

UpperCase ==
    <<"A", "B", "C", "D", "E", "F", "G", "H", "I", "J", "K", "L", "M", "N",
     "O", "P", "Q", "R", "S", "T", "U", "V", "W", "X", "Y", "Z">>

\* key_words_pattern: the alternatives of the group, in order
KeyWords ==
    <<<<"g", "e", "t">>, <<"g", "o">>, <<"c", "o", "m", "e">>,
     <<"t", "a", "k", "e">>, <<"p", "u", "t">>, <<"m", "a", "k", "e">>,
     <<"t", "h", "i", "n", "k">>, <<"k", "n", "o", "w">>,
     <<"w", "a", "n", "t">>, <<"n", "e", "e", "d">>, <<"l", "i", "k", "e">>,
     <<"l", "o", "v", "e">>, <<"h", "a", "v", "e">>, <<"h", "e", "l", "p">>,
     <<"w", "o", "r", "k">>, <<"f", "e", "e", "l">>, <<"l", "o", "o", "k">>,
     <<"s", "e", "e", "m">>, <<"h", "a", "p", "p", "y">>,
     <<"g", "o", "o", "d">>, <<"b", "a", "d">>, <<"s", "o", "r", "r", "y">>,
     <<"r", "i", "g", "h", "t">>,
     <<"i", "m", "p", "o", "r", "t", "a", "n", "t">>, <<"n", "i", "c", "e">>,
     <<"g", "r", "e", "a", "t">>>>

\* verb_groups: the dict as its list of (key, value) items
verb_groups ==
    <<[word |-> <<"g", "e", "t">>, similar |-> <<<<"h", "a", "v", "e">>, <<"t", "a", "k", "e">>, <<"m", "a", "k", "e">>>>],
      [word |-> <<"g", "o">>, similar |-> <<<<"c", "o", "m", "e">>, <<"m", "o", "v", "e">>, <<"w", "a", "l", "k">>>>],
      [word |-> <<"m", "a", "k", "e">>, similar |-> <<<<"c", "r", "e", "a", "t", "e">>, <<"b", "u", "i", "l", "d">>, <<"f", "o", "r", "m">>>>],
      [word |-> <<"t", "h", "i", "n", "k">>, similar |-> <<<<"b", "e", "l", "i", "e", "v", "e">>, <<"c", "o", "n", "s", "i", "d", "e", "r">>, <<"s", "u", "p", "p", "o", "s", "e">>>>],
      [word |-> <<"k", "n", "o", "w">>, similar |-> <<<<"u", "n", "d", "e", "r", "s", "t", "a", "n", "d">>, <<"r", "e", "a", "l", "i", "z", "e">>, <<"r", "e", "c", "o", "g", "n", "i", "z", "e">>>>],
      [word |-> <<"w", "a", "n", "t">>, similar |-> <<<<"n", "e", "e", "d">>, <<"w", "i", "s", "h">>, <<"d", "e", "s", "i", "r", "e">>>>],
      [word |-> <<"l", "i", "k", "e">>, similar |-> <<<<"l", "o", "v", "e">>, <<"e", "n", "j", "o", "y">>, <<"p", "r", "e", "f", "e", "r">>>>],
      [word |-> <<"h", "a", "v", "e">>, similar |-> <<<<"o", "w", "n">>, <<"p", "o", "s", "s", "e", "s", "s">>, <<"h", "o", "l", "d">>>>],
      [word |-> <<"h", "e", "l", "p">>, similar |-> <<<<"a", "s", "s", "i", "s", "t">>, <<"s", "u", "p", "p", "o", "r", "t">>, <<"a", "i", "d">>>>],
      [word |-> <<"w", "o", "r", "k">>, similar |-> <<<<"f", "u", "n", "c", "t", "i", "o", "n">>, <<"o", "p", "e", "r", "a", "t", "e">>, <<"p", "e", "r", "f", "o", "r", "m">>>>]>>

\* adj_groups: the dict as its list of (key, value) items
adj_groups ==
    <<[word |-> <<"h", "a", "p", "p", "y">>, similar |-> <<<<"g", "l", "a", "d">>, <<"p", "l", "e", "a", "s", "e", "d">>, <<"j", "o", "y", "f", "u", "l">>>>],
      [word |-> <<"g", "o", "o", "d">>, similar |-> <<<<"n", "i", "c", "e">>, <<"f", "i", "n", "e">>, <<"g", "r", "e", "a", "t">>>>],
      [word |-> <<"b", "a", "d">>, similar |-> <<<<"p", "o", "o", "r">>, <<"w", "r", "o", "n", "g">>, <<"t", "e", "r", "r", "i", "b", "l", "e">>>>],
      [word |-> <<"s", "o", "r", "r", "y">>, similar |-> <<<<"a", "p", "o", "l", "o", "g", "e", "t", "i", "c">>, <<"r", "e", "g", "r", "e", "t", "f", "u", "l">>, <<"s", "a", "d">>>>],
      [word |-> <<"i", "m", "p", "o", "r", "t", "a", "n", "t">>, similar |-> <<<<"s", "i", "g", "n", "i", "f", "i", "c", "a", "n", "t">>, <<"c", "r", "u", "c", "i", "a", "l">>, <<"v", "i", "t", "a", "l">>>>]>>

\* the default list of similar words
DefaultSimilar ==
    <<<<"g", "o", "o", "d">>, <<"m", "a", "k", "e">>, <<"t", "a", "k", "e">>,
     <<"k", "n", "o", "w">>, <<"t", "h", "i", "n", "k">>,
     <<"w", "a", "n", "t">>, <<"n", "e", "e", "d">>, <<"h", "e", "l", "p">>>>

Digits == {"0", "1", "2", "3", "4", "5", "6", "7", "8", "9"}

IsUpper(c) == \E k \in 1..Len(UpperCase) : UpperCase[k] = c

\* str.lower() / re.IGNORECASE on one character
Lower(c) ==
    IF IsUpper(c)
    THEN LowerCase[CHOOSE k \in 1..Len(UpperCase) : UpperCase[k] = c]
    ELSE c

LowerText(t) == [k \in 1..Len(t) |-> Lower(t[k])]

\* \w
IsWordChar(c) ==
    \/ \E k \in 1..Len(LowerCase) : LowerCase[k] = Lower(c)
    \/ c \in Digits
    \/ c = "_"

\* the position holds a \w character (positions outside the text do not)
WordAt(t, p) == p \in 1..Len(t) /\ IsWordChar(t[p])

\* \b just before position p
Boundary(t, p) == WordAt(t, p - 1) # WordAt(t, p)

\* t[a:b]
Slice(t, a, b) == SubSeq(t, Min(a, Len(t)) + 1, Min(b, Len(t)))

\* len(text.split())
WordCount(t) ==
    Cardinality({p \in 1..Len(t) : t[p] # " " /\ (p = 1 \/ t[p - 1] = " ")})

\* the literal w matches at position i, case ignored
MatchesAt(t, i, w) ==
    /\ i + Len(w) - 1 <= Len(t)
    /\ \A k \in 1..Len(w) : Lower(t[i + k - 1]) = Lower(w[k])

\* alternatives of key_words_pattern that match at position i between two \b
KeyWordsAt(t, i) ==
    {k \in 1..Len(KeyWords) :
        /\ Boundary(t, i)
        /\ MatchesAt(t, i, KeyWords[k])
        /\ Boundary(t, i + Len(KeyWords[k]))}

\* re.search(key_words_pattern, text, re.IGNORECASE).group(0), <<>> for no match
KeyWordSearch(t) ==
    LET starts == {i \in 1..Len(t) : KeyWordsAt(t, i) # {}}
    IN  IF starts = {} THEN <<>>
        ELSE LET i == Least(starts)
                 k == Least(KeyWordsAt(t, i))
             IN  SubSeq(t, i, i + Len(KeyWords[k]) - 1)

\* last position of the run of \w characters that starts at i
RunEnd(t, i) == Least({j \in i..Len(t) : ~WordAt(t, j + 1)})

\* re.findall(r'\b\w{3,10}\b', text): the whole runs of 3 to 10 \w characters
FindWords(t) ==
    {SubSeq(t, i, RunEnd(t, i)) :
        i \in {p \in 1..Len(t) :
                  /\ WordAt(t, p) /\ ~WordAt(t, p - 1)
                  /\ RunEnd(t, p) - p + 1 \in MinWordLen..MaxWordLen}}

Blank == <<"_", "_", "_", "_", "_">>

\* text.replace(w, r, 1): the first occurrence of w as a substring
ReplaceFirst(t, w, r) ==
    LET found == {i \in 1..(Len(t) - Len(w) + 1) : SubSeq(t, i, i + Len(w) - 1) = w}
    IN  IF found = {} THEN t
        ELSE LET i == Least(found)
             IN  SubSeq(t, 1, i - 1) \o r \o SubSeq(t, i + Len(w), Len(t))

\* random.sample(list, n) and DataFrame.sample(n): n entries at distinct
\* positions, in any order
Samples(list, n) ==
    {[k \in 1..n |-> list[f[k]]] :
        f \in {g \in [1..n -> 1..Len(list)] :
                  \A a, b \in 1..n : a # b => g[a] # g[b]}}

\* random.shuffle(list): any order of the entries
Shuffles(list) == Samples(list, Len(list))

\* list(set(...)): the distinct values in the order the set iterates
Orderings(S) ==
    {s \in [1..Cardinality(S) -> S] :
        \A a, b \in 1..Cardinality(S) : a # b => s[a] # s[b]}

\* mutant: the index is taken before the shuffle, where the answer is first
IndexOf_beforeShuffle(list, x) == 0

\* list.index(x): 0-based position of the first entry equal to x
IndexOf(list, x) == Least({k \in 1..Len(list) : list[k] = x}) - 1

\* "You is good": one flagged issue, a key word
RowGood ==
    Row(<<"Y", "o", "u", " ", "i", "s", " ", "g", "o", "o", "d">>,
        <<"n", "e", "o", " ", "j", "o", "h", "a">>)

\* "I go": no issue, a key word
RowGo ==
    Row(<<"I", " ", "g", "o">>,
        <<"n", "a", " ", "g", "a">>)

\* "Hi": no issue, no word of 3 to 10 characters
RowHi ==
    Row(<<"H", "i">>,
        <<"a", "n", "n", "y", "e", "o", "n", "g">>)

\* "Thanks": no issue, no key word, one word of 3 to 10 characters
RowThanks ==
    Row(<<"T", "h", "a", "n", "k", "s">>,
        <<"g", "o", "m", "a", "w", "o">>)

\* "you is he go we is": three flagged issues
RowMulti ==
    Row(<<"y", "o", "u", " ", "i", "s", " ", "h", "e", " ", "g", "o", " ", "w", "e", " ", "i", "s">>,
        <<"m", "w", "o", "r", "a", "g", "o">>)

\* "goodbye, be good": the key word's letters also begin an earlier, longer word
RowGoodbye ==
    Row(<<"g", "o", "o", "d", "b", "y", "e", ",", " ", "b", "e", " ", "g", "o", "o", "d">>,
        <<"j", "a", "l", " ", "g", "a">>)

AllRows == {RowGood, RowGo, RowHi, RowThanks, RowMulti, RowGoodbye}

\* "We go" and "Oh yes": as many words as "I go"
RowWe ==
    Row(<<"W", "e", " ", "g", "o">>,
        <<"u", "r", "i", " ", "g", "a">>)

RowOh ==
    Row(<<"O", "h", " ", "y", "e", "s">>,
        <<"a", " ", "n", "e">>)

\* a DataFrame with more than 50 rows that differ from "I go": 49 rows of two
\* words, two rows of one word and one row of six words
BigCorpus ==
    [k \in 1..53 |->
        IF k = 1 THEN RowGo
        ELSE IF k <= 26 THEN RowWe
        ELSE IF k <= 50 THEN RowOh
        ELSE IF k = 51 THEN RowHi
        ELSE IF k = 52 THEN RowThanks
        ELSE RowMulti]

\* DataFrames given to QuizEngine: without rows, with one row, with a repeated
\* row, and with rows that all differ
Corpora ==
    {<<>>,
     <<RowGood>>,
     <<RowGood, RowGo, RowGo>>,
     <<RowGood, RowGo, RowHi, RowThanks, RowMulti>>}

\* expression_row arguments: None, or a row
NoItem == [given |-> FALSE, row |-> EmptyRow]
Items == {NoItem} \cup {[given |-> TRUE, row |-> r] : r \in AllRows}

\* self.patterns of the detector: literal patterns with their corrections
Patterns ==
    <<[id |-> "BE_VERB_AGREEMENT_1", pattern |-> <<"y", "o", "u", " ", "i", "s">>,
       correction |-> <<"y", "o", "u", " ", "a", "r", "e">>],
      [id |-> "BE_VERB_AGREEMENT_2", pattern |-> <<"w", "e", " ", "i", "s">>,
       correction |-> <<"w", "e", " ", "a", "r", "e">>],
      [id |-> "VERB_AGREEMENT_1", pattern |-> <<"h", "e", " ", "g", "o">>,
       correction |-> <<"h", "e", " ", "g", "o", "e", "s">>]>>

\* broken_detector arguments: None, or a detector
NoDetector == [present |-> FALSE, patterns |-> <<>>]
Detectors == {NoDetector, [present |-> TRUE, patterns |-> Patterns]}

\* quiz_type arguments: the four types, "random" and a name that is none of them
QuizTypeInputs ==
    {"kr_to_en", "en_to_kr", "fill_blank", "grammar_correction", "random", "listening"}

\* _generate_similar_words: the list that is sampled
SimilarWords(word) ==
    LET word_lower == LowerText(word)
        verbs == {k \in 1..Len(verb_groups) : verb_groups[k].word = word_lower}
        adjs == {k \in 1..Len(adj_groups) : adj_groups[k].word = word_lower}
        similar == IF verbs # {} THEN verb_groups[Least(verbs)].similar
                   ELSE IF adjs # {} THEN adj_groups[Least(adjs)].similar
                   ELSE DefaultSimilar
        Other(w) == LowerText(w) # word_lower
    IN  SelectSeq(similar, Other)

generate_similar_words(word, num) ==
    Samples(SimilarWords(word), Min(num, Len(SimilarWords(word))))

\* rows of self.df[column] != correct_text, by position in the DataFrame
Candidates(correct_text, column) ==
    {k \in 1..Len(corpus) : corpus[k][column] # correct_text}

\* mutant: head(50) is missing, every candidate is in the pool
SamplePools_noHead(correct_text, column) == {Candidates(correct_text, column)}

\* candidates.head(50) after sort_values('len_diff'), or all candidates when
\* there are fewer than 50; rows of equal len_diff may come in any order
SamplePools(correct_text, column) ==
    LET candidates == Candidates(correct_text, column)
        correct_len == WordCount(correct_text)
        diff(k) == WordCount(corpus[k][column]) - correct_len
        len_diff(k) == IF diff(k) >= 0 THEN diff(k) ELSE 0 - diff(k)
        \* len_diff of the last row that head(50) keeps
        cut == Least({d \in {len_diff(k) : k \in candidates} :
                        Cardinality({k \in candidates : len_diff(k) <= d}) >= PoolSize})
        below == {k \in candidates : len_diff(k) < cut}
        at == {k \in candidates : len_diff(k) = cut}
    IN  IF Cardinality(candidates) >= PoolSize
        THEN {below \cup tied :
                 tied \in {T \in SUBSET at :
                               Cardinality(T) = PoolSize - Cardinality(below)}}
        ELSE {candidates}

\* _generate_wrong_choices: the lists it can return
generate_wrong_choices(correct_row, num_wrong, column) ==
    UNION {LET num_available == Min(num_wrong, Cardinality(pool))
           IN  {[k \in 1..num_available |-> corpus[rows[k]][column]] :
                   rows \in {r \in [1..num_available -> pool] :
                                \A a, b \in 1..num_available : a # b => r[a] # r[b]}}
           : pool \in SamplePools(correct_row[column], column)}

\* the dict a generator returns
QuizDict(type, question, choices, correct_answer) ==
    [outcome |-> "dict", type |-> type, question |-> question,
     choices |-> choices, correct_index |-> IndexOf(choices, correct_answer),
     correct_answer |-> correct_answer]

\* an exception left generate_quiz
Raised(exception) == [NoneOutcome EXCEPT !.outcome = exception]

generate_kr_to_en_quiz(expression_row, num_choices) ==
    LET correct_english == expression_row["clean_subtitle"]
        correct_korean == expression_row["Machine Translation"]
    IN  UNION {{QuizDict("kr_to_en", correct_korean, all_choices, correct_english) :
                   all_choices \in Shuffles(<<correct_english>> \o wrong_choices)}
               : wrong_choices \in generate_wrong_choices(expression_row,
                                       num_choices - 1, "clean_subtitle")}

generate_en_to_kr_quiz(expression_row, num_choices) ==
    LET correct_english == expression_row["clean_subtitle"]
        correct_korean == expression_row["Machine Translation"]
    IN  UNION {{QuizDict("en_to_kr", correct_english, all_choices, correct_korean) :
                   all_choices \in Shuffles(<<correct_korean>> \o wrong_choices)}
               : wrong_choices \in generate_wrong_choices(expression_row,
                                       num_choices - 1, "Machine Translation")}

generate_fill_blank_quiz(expression_row) ==
    LET text == expression_row["clean_subtitle"]
        match == KeyWordSearch(text)
        key_words == IF match = <<>> THEN FindWords(text) ELSE {match}
    IN  IF key_words = {} THEN {NoneOutcome}
        ELSE UNION {UNION {{QuizDict("fill_blank",
                                     ReplaceFirst(text, key_word, Blank),
                                     choices, key_word) :
                               choices \in Shuffles(<<key_word>> \o similar_words)}
                           : similar_words \in generate_similar_words(key_word, SimilarNum)}
                    : key_word \in key_words}

\* --------------------------------------------------- BrokenEnglishDetector
\* re.finditer of a literal pattern: start positions of the matches, left to
\* right, each search resuming after the previous match
RECURSIVE FindIter(_, _, _)
FindIter(pattern, t, i) ==
    IF i + Len(pattern) - 1 > Len(t) THEN <<>>
    ELSE IF MatchesAt(t, i, pattern)
         THEN <<i>> \o FindIter(pattern, t, i + Len(pattern))
         ELSE FindIter(pattern, t, i + 1)

\* the issues of one pattern
IssuesOf(pattern_info, t) ==
    LET matches == FindIter(pattern_info.pattern, t, 1)
    IN  [k \in 1..Len(matches) |->
            [pattern_id |-> pattern_info.id,
             matched |-> SubSeq(t, matches[k], matches[k] + Len(pattern_info.pattern) - 1),
             correction |-> pattern_info.correction,
             start |-> matches[k] - 1,
             end |-> matches[k] - 1 + Len(pattern_info.pattern)]]

\* the loop over self.patterns
RECURSIVE Detected(_, _)
Detected(patterns, t) ==
    IF patterns = <<>> THEN <<>>
    ELSE IssuesOf(Head(patterns), t) \o Detected(Tail(patterns), t)

\* detected.sort(key=start): stable, smaller keys first
RECURSIVE InsertByStart(_, _)
InsertByStart(sorted, x) ==
    IF sorted = <<>> THEN <<x>>
    ELSE IF Head(sorted).start <= x.start
         THEN <<Head(sorted)>> \o InsertByStart(Tail(sorted), x)
         ELSE <<x>> \o sorted

RECURSIVE SortByStart(_)
SortByStart(list) ==
    IF list = <<>> THEN <<>>
    ELSE InsertByStart(SortByStart(SubSeq(list, 1, Len(list) - 1)), list[Len(list)])

detect_broken(patterns, t) == SortByStart(Detected(patterns, t))

\* corrected[:start] + correction + corrected[end:]
ApplyIssue(t, issue) ==
    Slice(t, 0, issue.start) \o issue.correction \o Slice(t, issue.end, Len(t))

\* the issues applied one after the other, in the order of the list
RECURSIVE ApplyIssues(_, _)
ApplyIssues(t, issues) ==
    IF issues = <<>> THEN t
    ELSE ApplyIssues(ApplyIssue(t, Head(issues)), Tail(issues))

Reversed(list) == [k \in 1..Len(list) |-> list[Len(list) + 1 - k]]

suggest_correction(patterns, t) ==
    LET detected == detect_broken(patterns, t)
    IN  IF detected = <<>>
        THEN [has_errors |-> FALSE, corrected |-> t, issues |-> <<>>]
        ELSE [has_errors |-> TRUE,
              corrected |-> ApplyIssues(t, Reversed(detected)),
              issues |-> detected]

\* ------------------------------------------------ grammar correction quiz
\* _generate_fake_correction: the sentences it can return
generate_fake_correction(t, issues) ==
    IF issues = <<>> THEN {t}
    ELSE UNION {{ApplyIssues(t, issues_to_fix) :
                    issues_to_fix \in Samples(issues, num_to_fix)}
                : num_to_fix \in 1..Max(1, Len(issues) - 1)}

\* the choices built from a correction result
GrammarQuizzes(t, correction) ==
    LET correct_text == correction.corrected
        fakes == generate_fake_correction(t, correction.issues)
        Wrong(c) == c # correct_text
    IN  UNION {UNION {{QuizDict("grammar_correction", t, all_choices, correct_text) :
                          all_choices \in
                              Shuffles(<<correct_text>> \o
                                       SubSeq(SelectSeq(wrong_choices, Wrong), 1,
                                              Min(3, Len(SelectSeq(wrong_choices, Wrong)))))}
                      : wrong_choices \in Orderings({t, pair[1], pair[2]})}
               : pair \in fakes \X fakes}

\* mutant: the has_errors check is missing
generate_grammar_correction_quiz_noSkip(broken_row, broken_detector) ==
    GrammarQuizzes(broken_row["clean_subtitle"],
                   suggest_correction(broken_detector.patterns,
                                      broken_row["clean_subtitle"]))

generate_grammar_correction_quiz(broken_row, broken_detector) ==
    LET text == broken_row["clean_subtitle"]
        correction == suggest_correction(broken_detector.patterns, text)
    IN  IF ~correction.has_errors THEN {NoneOutcome}
        ELSE GrammarQuizzes(text, correction)

\* ----------------------------------------------------------- generate_quiz
QuizTypes == {"kr_to_en", "en_to_kr", "fill_blank", "grammar_correction"}

\* the generator of a quiz type, past the choice of the row and of the type
Dispatch(quiz_type, expression_row, broken_detector) ==
    IF quiz_type = "kr_to_en"
    THEN generate_kr_to_en_quiz(expression_row, NumChoices)
    ELSE IF quiz_type = "en_to_kr"
    THEN generate_en_to_kr_quiz(expression_row, NumChoices)
    ELSE IF quiz_type = "fill_blank"
    THEN generate_fill_blank_quiz(expression_row)
    ELSE IF quiz_type = "grammar_correction"
    THEN IF ~broken_detector.present THEN {NoneOutcome}
         ELSE generate_grammar_correction_quiz(expression_row, broken_detector)
    ELSE {NoneOutcome}

\* generate_quiz: the values quiz can take; self.df.sample(1) raises
\* ValueError on a DataFrame without rows
generate_quiz(quiz_type, item, broken_detector) ==
    LET rows == IF item.given THEN {item.row}
                ELSE {corpus[k] : k \in 1..Len(corpus)}
        types == IF quiz_type = "random" THEN QuizTypes ELSE {quiz_type}
        Call(row, type, out) ==
            [quiz_type |-> quiz_type, item_given |-> item.given,
             detector |-> broken_detector.present, row |-> row, kind |-> type,
             outcome |-> out.outcome, type |-> out.type, question |-> out.question,
             choices |-> out.choices, correct_index |-> out.correct_index,
             correct_answer |-> out.correct_answer]
    IN  IF rows = {}
        THEN {Call(EmptyRow, "", Raised("ValueError"))}
        ELSE UNION {UNION {{Call(row, type, out) :
                               out \in Dispatch(type, row, broken_detector)}
                           : type \in types}
                    : row \in rows}

GenerateQuiz(quiz_type, item, broken_detector) ==
    /\ quiz' \in generate_quiz(quiz_type, item, broken_detector)
    /\ UNCHANGED <<expressions, expr_order, statistics, disk, today, result,
                   other, corpus, quiz_state>>

\* QuizEngine(df) on one of the DataFrames, beside an untouched store
InitQuiz ==
    /\ InitStore
    /\ corpus \in Corpora
    /\ quiz = NoQuiz
    /\ quiz_state = NoSession

\* one generate_quiz call on the engine
NextQuiz ==
    \E quiz_type \in QuizTypeInputs, item \in Items, broken_detector \in Detectors :
        /\ quiz = NoQuiz
        /\ GenerateQuiz(quiz_type, item, broken_detector)

SpecQuiz == InitQuiz /\ [][NextQuiz]_vars

\* QuizEngine(df) on a DataFrame with more candidates than the pool takes, or
\* with fewer
InitPool ==
    /\ InitStore
    /\ corpus \in {BigCorpus, <<RowGood, RowGo, RowGo, RowHi, RowMulti>>}
    /\ quiz = NoQuiz
    /\ quiz_state = NoSession

\* one translation quiz for the row "I go"
NextPool ==
    \E quiz_type \in {"kr_to_en", "en_to_kr"} :
        /\ quiz = NoQuiz
        /\ GenerateQuiz(quiz_type, [given |-> TRUE, row |-> RowGo], NoDetector)

SpecPool == InitPool /\ [][NextPool]_vars

\* ---------------------------------------------------------------- session
\* page_quiz of app.py: the buttons of the quiz page, one action per click

\* load_data(): the DataFrame of the session
SessionCorpus == <<RowHi, RowGo>>

\* load_resources(): the detector handed to every generate_quiz call
SessionDetector == [present |-> TRUE, patterns |-> Patterns]

\* the dict of a generate_quiz call, as stored in quiz_state['current_quiz']
DictOf(call) ==
    [outcome |-> call.outcome, type |-> call.type, question |-> call.question,
     choices |-> call.choices, correct_index |-> call.correct_index,
     correct_answer |-> call.correct_answer]

\* st.session_state.quiz_state['current_quiz'] is None
NoCurrentQuiz == quiz_state.current_quiz.outcome # "dict"

\* show_quiz_result: is_correct
show_quiz_result(selected_index, correct_index) == selected_index = correct_index

\* quiz_widget: the indices the radio over the choices can return
quiz_widget(current) == 0..(Len(current.choices) - 1)

SessionFrame ==
    UNCHANGED <<expressions, expr_order, statistics, disk, today, result, other, corpus>>

\* button "퀴즈 시작": a falsy or failed generate_quiz leaves the session as it is
StartQuiz(quiz_type) ==
    /\ NoCurrentQuiz
    /\ quiz' \in generate_quiz(quiz_type, NoItem, SessionDetector)
    /\ quiz_state' =
           IF quiz'.outcome = "dict"
           THEN [quiz_state EXCEPT !.current_quiz = DictOf(quiz'),
                                   !.answered = FALSE, !.event = "start"]
           ELSE [quiz_state EXCEPT !.event = "start"]
    /\ SessionFrame

\* mutant: the submit button stays on the page after the answer was counted
Submit_recount(selected) ==
    /\ ~NoCurrentQuiz
    /\ quiz_state.total < MaxTotal
    /\ selected \in quiz_widget(quiz_state.current_quiz)
    /\ quiz_state' =
           [quiz_state EXCEPT
               !.answered = TRUE,
               !.total = @ + 1,
               !.score = IF show_quiz_result(selected,
                                             quiz_state.current_quiz.correct_index)
                         THEN @ + 1 ELSE @,
               !.quiz_answer = selected,
               !.event = "submit"]
    /\ UNCHANGED quiz
    /\ SessionFrame

\* button "제출" with the radio on selected, offered while answered is False
Submit(selected) ==
    /\ ~NoCurrentQuiz
    /\ ~quiz_state.answered
    /\ quiz_state.total < MaxTotal
    /\ selected \in quiz_widget(quiz_state.current_quiz)
    /\ quiz_state' =
           [quiz_state EXCEPT
               !.answered = TRUE,
               !.total = @ + 1,
               !.score = IF show_quiz_result(selected,
                                             quiz_state.current_quiz.correct_index)
                         THEN @ + 1 ELSE @,
               !.quiz_answer = selected,
               !.event = "submit"]
    /\ UNCHANGED quiz
    /\ SessionFrame

\* button "다음 문제", offered once answered is True
NextProblem ==
    /\ ~NoCurrentQuiz
    /\ quiz_state.answered
    /\ quiz' \in generate_quiz("random", NoItem, SessionDetector)
    /\ quiz_state' =
           IF quiz'.outcome = "dict"
           THEN [quiz_state EXCEPT !.current_quiz = DictOf(quiz'),
                                   !.answered = FALSE, !.event = "next"]
           ELSE [quiz_state EXCEPT !.event = "next"]
    /\ SessionFrame

\* button "종료", offered once answered is True
Quit ==
    /\ ~NoCurrentQuiz
    /\ quiz_state.answered
    /\ quiz_state' = [quiz_state EXCEPT !.current_quiz = NoneOutcome,
                                        !.answered = FALSE, !.event = "quit"]
    /\ UNCHANGED quiz
    /\ SessionFrame

\* initialize_session_state on a first run
InitSession ==
    /\ InitStore
    /\ corpus = SessionCorpus
    /\ quiz = NoQuiz
    /\ quiz_state = NoSession

NextSession ==
    \/ \E quiz_type \in {"random"} \cup QuizTypes : StartQuiz(quiz_type)
    \/ \E selected \in 0..(NumChoices - 1) : Submit(selected)
    \/ NextProblem
    \/ Quit

SpecSession == InitSession /\ [][NextSession]_vars

\* ================================================================ claims
\* a step in which only the calendar day moves: no call was made
ClockStep ==
    /\ today' # today
    /\ UNCHANGED <<expressions, expr_order, statistics, disk, result>>

\* the step is a call of the operation op
Called(op) == ~ClockStep /\ result'.op = op

\* the step is a call of record_review on the known id that returned normally
Reviewed(id) ==
    /\ Called("record_review")
    /\ result'.status = "ok"
    /\ result'.id = id
    /\ id \in Known

StoreUnchanged == UNCHANGED <<expressions, expr_order, statistics, disk>>

C3_EaseFloor == \A id \in Known : expressions[id].ease_factor >= 130

\* the ease factor the history would give without the clamp
RECURSIVE UnclampedEase(_)
UnclampedEase(h) ==
    IF h = <<>> THEN DefaultEase
    ELSE UnclampedEase(SubSeq(h, 1, Len(h) - 1))
             + (IF h[Len(h)] >= 3 THEN EaseDelta(h[Len(h)]) ELSE 0)

\* the clamp has acted: the ratings alone would have taken the factor below 1.3
C3_Witness ==
    \E id \in Known :
        /\ expressions[id].ease_factor = 130
        /\ UnclampedEase(expressions[id].quality_history) < 130
        /\ expressions[id].quality_history[Len(expressions[id].quality_history)] = 3

\* C4: a reviewed record has next_review = last_review + interval, a record
\* never reviewed has next_review = created_at + interval.
C4_NextReviewDate ==
    \A id \in Known :
        LET e == expressions[id] IN
        IF e.last_review # NoDate
        THEN e.next_review = e.last_review + e.interval
        ELSE e.next_review = e.created_at + e.interval

\* the part of C4 about reviewed records alone
C4_ReviewedDate ==
    \A id \in Known :
        expressions[id].last_review # NoDate
            => expressions[id].next_review
                   = expressions[id].last_review + expressions[id].interval

\* number of ratings of at least 3 at the end of a history
RECURSIVE TrailingPasses(_)
TrailingPasses(h) ==
    IF h = <<>> THEN 0
    ELSE IF h[Len(h)] >= 3 THEN 1 + TrailingPasses(SubSeq(h, 1, Len(h) - 1))
    ELSE 0

\* C5: repetitions is the number of consecutive passing ratings at the end of
\* quality_history; it is 0 only for an empty history or a last rating below 3.
C5_Repetitions ==
    \A id \in Known :
        LET e == expressions[id]
            h == e.quality_history
        IN  /\ e.repetitions = TrailingPasses(h)
            /\ (e.repetitions = 0 => (h = <<>> \/ h[Len(h)] < 3))

\* passes, a failure, then two passes: the count restarts after the failure
C5_Witness ==
    \E id \in Known :
        LET h == expressions[id].quality_history IN
        /\ Len(h) = 5
        /\ h[1] >= 3 /\ h[2] >= 3 /\ h[3] < 3 /\ h[4] >= 3 /\ h[5] >= 3
        /\ expressions[id].repetitions = 2

\* C6: add_expression of an id that exists changes no record, not the
\* statistics and not the file; total_expressions is the number of ids.
C6_IdempotentAdd ==
    [][/\ (Called("add_expression") /\ result'.id \in Known)
            => (StoreUnchanged /\ result'.saved = FALSE)
       /\ statistics'.total_expressions = Cardinality(DOMAIN expressions')]_vars

\* an id that has been reviewed is added again, next to another record
C6_Witness ==
    /\ result.op = "add_expression" /\ result.saved = FALSE
    /\ result.id \in Known
    /\ expressions[result.id].quality_history # <<>>
    /\ Cardinality(Known) = 2
    /\ statistics.total_expressions = 2

\* C7: record_review of an id never added ends with the not-found error and
\* changes no record, not the statistics and not the file.
C7_NotFound ==
    [][/\ (Called("record_review") /\ result'.id \notin Known)
            => (result'.status = "KeyError" /\ result'.saved = FALSE /\ StoreUnchanged)
       /\ result'.status = "KeyError"
            => (result'.op = "record_review" /\ result'.id \notin Known)]_vars

\* the error is raised by a store that holds a reviewed record
C7_Witness ==
    /\ result.status = "KeyError"
    /\ result.id \notin Known
    /\ Known # {}
    /\ statistics.total_reviews > 0

\* C8: record_review of an existing id with a quality outside 0..5 is
\* rejected with a validation error and changes nothing.
C8_ValidationRejects ==
    [][(/\ Called("record_review")
        /\ result'.id \in Known
        /\ result'.quality \notin ValidQualities)
       => (result'.status = "ValidationError" /\ result'.saved = FALSE
           /\ StoreUnchanged)]_vars

\* C9: get_due_expressions returns exactly the records with next_review <=
\* the date, each once and with days_overdue = date - next_review >= 0, in
\* descending order of days_overdue.
C9_Due ==
    [][Called("get_due_expressions") =>
        LET due == result'.due
            n == Len(due)
            target == IF result'.date = NoDate THEN today ELSE result'.date
        IN  /\ {due[i].id : i \in 1..n}
                 = {id \in Known : expressions[id].next_review <= target}
            /\ \A i, j \in 1..n : due[i].id = due[j].id => i = j
            /\ \A i \in 1..n :
                 /\ due[i].days_overdue = target - expressions[due[i].id].next_review
                 /\ due[i].days_overdue >= 0
            /\ \A i \in 1..(n - 1) : due[i].days_overdue >= due[i + 1].days_overdue]_vars

\* two records are due; the one inserted later is the more overdue and comes
\* first
C9_Witness ==
    /\ result.op = "get_due_expressions"
    /\ Len(result.due) = 2
    /\ result.due[1].days_overdue > result.due[2].days_overdue
    /\ result.due[1].id = expr_order[2]
    /\ result.due[2].id = expr_order[1]

\* ratings of all histories: their sum and their number
AllRatingsSum ==
    SumOver([i \in Known |-> SumSeq(expressions[i].quality_history)], Known)

AllRatingsCount ==
    SumOver([i \in Known |-> Len(expressions[i].quality_history)], Known)

\* C10: correct_rate is the sum of all ratings over 5 x their number, 0 when
\* there is none, and lies between 0 and 1.
C10_CorrectRate ==
    LET num == statistics.correct_rate[1]
        den == statistics.correct_rate[2]
    IN  /\ den > 0
        /\ IF AllRatingsCount = 0 THEN num = 0
           ELSE num * (5 * AllRatingsCount) = AllRatingsSum * den
        /\ 0 <= num /\ num <= den

\* C10 restricted to the states in which every stored rating is within 0..5
C10_WithinRange ==
    (\A id \in Known :
        \A k \in 1..Len(expressions[id].quality_history) :
            expressions[id].quality_history[k] \in ValidQualities)
    => C10_CorrectRate

\* what a LearningDataManager constructed now on the same path would hold
Reloaded == LoadData(disk)

InMemory ==
    [expressions |-> expressions, expr_order |-> expr_order, statistics |-> statistics]

\* C11: after every add_expression or record_review that returned normally
\* the file holds the full current state, so that a store constructed on the
\* same path has the same expressions and statistics; while the path has no
\* file the store is empty.
C11_DurableState ==
    /\ (result.op \in {"add_expression", "record_review"} /\ result.status = "ok")
           => Reloaded = InMemory
    /\ disk = NoFile => InMemory = EmptyData

\* two records are on file, one of them reviewed twice, after a review
C11_Witness ==
    /\ result.op = "record_review" /\ result.status = "ok"
    /\ Len(disk.members) = 2
    /\ \E id \in DOMAIN Reloaded.expressions :
           Len(Reloaded.expressions[id].quality_history) = 2
    /\ Reloaded.statistics.total_reviews = 2

\* C12: when the write of an add_expression or record_review call fails, the
\* in-memory state and the file are both as they were before the call, and
\* the file is not left truncated.
C12_AllOrNothing ==
    [][(~ClockStep /\ result'.status = "OSError")
          => /\ StoreUnchanged
             /\ disk'.state # "truncated"]_vars

IsPrefix(s, t) == Len(s) <= Len(t) /\ SubSeq(t, 1, Len(s)) = s

\* C13: with two store instances on the same file taking turns, no update is
\* lost: every successful write leaves on file each record that was there,
\* with a review history that extends the one that was there.
C13_NoLostUpdate ==
    [][(~ClockStep /\ result'.saved)
          => \A k \in 1..Len(disk.members) :
                 \E j \in 1..Len(disk'.members) :
                     /\ disk'.members[j].key = disk.members[k].key
                     /\ IsPrefix(disk.members[k].value.quality_history,
                                 disk'.members[j].value.quality_history)]_vars

\* C14: no call removes a record, and review histories only grow at the end:
\* every known id stays known; a record_review of an id that returned
\* normally appends the given quality to that id's quality_history, and every
\* other history is left as it was.
C14_AppendOnly ==
    [][/\ Known \subseteq DOMAIN expressions'
       /\ \A id \in Known :
              IF Reviewed(id)
              THEN expressions'[id].quality_history =
                       Append(expressions[id].quality_history, result'.quality)
              ELSE expressions'[id].quality_history =
                       expressions[id].quality_history]_vars

\* two records, one reviewed twice with different ratings, the other never
C14_Witness ==
    /\ result.op = "record_review" /\ result.status = "ok"
    /\ \E id \in Known, id2 \in Known :
           /\ Len(expressions[id].quality_history) = 2
           /\ expressions[id].quality_history[1] # expressions[id].quality_history[2]
           /\ expressions[id2].quality_history = <<>>

\* C20 as claimed: the scheduler called with quality 4, repetitions 1, ease
\* factor 2.6 and interval 1 returns interval 6, repetitions 2 and an ease
\* factor of about 2.68.
C20_ExampleAsClaimed ==
    [][(/\ Reviewed("expr_001")
        /\ result'.quality = 4
        /\ expressions["expr_001"].repetitions = 1
        /\ expressions["expr_001"].ease_factor = 260
        /\ expressions["expr_001"].interval = 1)
       => /\ expressions'["expr_001"].interval = 6
          /\ expressions'["expr_001"].repetitions = 2
          /\ expressions'["expr_001"].ease_factor \in 267..269]_vars

\* C20: the scheduler called with quality 4, repetitions 1, ease factor 2.6
\* and interval 1 returns interval 6, repetitions 2 and the ease factor 2.6
\* unchanged (the adjustment for quality 4 is 0).
C20_Example ==
    [][(/\ Reviewed("expr_001")
        /\ result'.quality = 4
        /\ expressions["expr_001"].repetitions = 1
        /\ expressions["expr_001"].ease_factor = 260
        /\ expressions["expr_001"].interval = 1)
       => /\ expressions'["expr_001"].interval = 6
          /\ expressions'["expr_001"].repetitions = 2
          /\ expressions'["expr_001"].ease_factor = 260]_vars

\* a fresh record reviewed with quality 5 and then with quality 4
C20_Witness ==
    /\ "expr_001" \in Known
    /\ result.op = "record_review" /\ result.quality = 4
    /\ expressions["expr_001"].quality_history = <<5, 4>>
    /\ expressions["expr_001"].repetitions = 2
    /\ expressions["expr_001"].interval = 6

\* C15: in every quiz dict a generator produces, over any DataFrame, the
\* entries of choices are pairwise distinct and exactly one of them equals
\* correct_answer.
C15_NoDuplicateChoices ==
    quiz.outcome = "dict"
        => /\ \A a, b \in 1..Len(quiz.choices) :
                  a # b => quiz.choices[a] # quiz.choices[b]
           /\ Cardinality({k \in 1..Len(quiz.choices) :
                              quiz.choices[k] = quiz.correct_answer}) = 1

\* C16: in every quiz dict a generator produces correct_index is a position
\* of choices and the entry at that position equals correct_answer, whatever
\* order the shuffle gave.
C16_CorrectIndex ==
    quiz.outcome = "dict"
        => /\ quiz.correct_index \in 0..(Len(quiz.choices) - 1)
           /\ quiz.choices[quiz.correct_index + 1] = quiz.correct_answer

\* a quiz of four choices in which the shuffle moved the answer to the end
C16_Witness ==
    /\ quiz.outcome = "dict"
    /\ Len(quiz.choices) = 4
    /\ quiz.correct_index = 3
    /\ quiz.choices[4] = quiz.correct_answer
    /\ quiz.choices[1] # quiz.correct_answer

\* C17: every quiz dict a generator returns has at least 2 choices; without
\* any distractor the generator returns None instead of a quiz of one choice.
C17_AtLeastTwoChoices ==
    quiz.outcome = "dict" => Len(quiz.choices) >= 2

\* the grammar generator was called with a detector on the row of the call
GrammarCalled == quiz.kind = "grammar_correction" /\ quiz.detector

\* C18: when the correction service reports has_errors = false for the
\* sentence, the grammar correction generator returns None, not a quiz dict.
C18_GrammarSkip ==
    (/\ GrammarCalled
     /\ ~suggest_correction(Patterns, quiz.row["clean_subtitle"]).has_errors)
        => quiz.outcome = "None"

\* the grammar generator was asked for a quiz of a sentence without issues
C18_Witness ==
    /\ GrammarCalled
    /\ quiz.quiz_type = "grammar_correction"
    /\ quiz.row = RowGo
    /\ detect_broken(Patterns, quiz.row["clean_subtitle"]) = <<>>
    /\ quiz.outcome = "None"

\* C19: generate_quiz never raises, for every quiz type, with or without a
\* row, over any DataFrame including one without rows: it returns a quiz dict
\* or None, and None when the type is grammar_correction and no detector is
\* given.
C19_NeverRaises ==
    /\ quiz.outcome \in {"init", "dict", "None"}
    /\ (quiz.kind = "grammar_correction" /\ ~quiz.detector) => quiz.outcome = "None"

\* the issues at the positions S of the list, in the order of the list
RECURSIVE IssuesAt(_, _)
IssuesAt(issues, S) ==
    IF issues = <<>> THEN <<>>
    ELSE LET front == IssuesAt(SubSeq(issues, 1, Len(issues) - 1), S)
         IN  IF Len(issues) \in S THEN Append(front, issues[Len(issues)]) ELSE front

\* the sentence with the original span of each chosen issue replaced: the
\* chosen issues applied from the highest start offset to the lowest
SpansReplaced(t, issues, S) ==
    ApplyIssues(t, Reversed(SortByStart(IssuesAt(issues, S))))

\* C21: every partially corrected distractor of a grammar quiz is the
\* original sentence with the original span [start, end) of each chosen issue
\* replaced by that issue's correction, for every chosen set of issues and
\* every order in which it was drawn.
C21_FakeCorrectionSpans ==
    (quiz.outcome = "dict" /\ quiz.type = "grammar_correction")
        => LET text == quiz.row["clean_subtitle"]
               issues == detect_broken(Patterns, text)
           IN  \A k \in 1..Len(quiz.choices) :
                   \/ quiz.choices[k] = quiz.correct_answer
                   \/ quiz.choices[k] = text
                   \/ \E S \in SUBSET (1..Len(issues)) :
                          S # {} /\ quiz.choices[k] = SpansReplaced(text, issues, S)

\* the sentence with the first occurrence of w as a whole word replaced by r
ReplaceFirstWord(t, w, r) ==
    LET found == {i \in 1..(Len(t) - Len(w) + 1) :
                     /\ SubSeq(t, i, i + Len(w) - 1) = w
                     /\ Boundary(t, i)
                     /\ Boundary(t, i + Len(w))}
    IN  IF found = {} THEN t
        ELSE LET i == Least(found)
             IN  SubSeq(t, 1, i - 1) \o r \o SubSeq(t, i + Len(w), Len(t))

\* C23: the question of a fill-blank quiz is the sentence with the first
\* whole-word occurrence of the chosen word replaced by the blank marker and
\* nothing else changed, also when the word's letters occur earlier inside a
\* longer word.
C23_ClozeBlank ==
    (quiz.outcome = "dict" /\ quiz.type = "fill_blank")
        => quiz.question =
               ReplaceFirstWord(quiz.row["clean_subtitle"], quiz.correct_answer, Blank)

\* the column a translation quiz takes its choices from
ChoiceColumn == IF quiz.type = "kr_to_en" THEN "clean_subtitle" ELSE "Machine Translation"

\* rows of the DataFrame whose text differs from the correct answer
OtherRows == {k \in 1..Len(corpus) : corpus[k][ChoiceColumn] # quiz.correct_answer}

\* difference in word count to the correct answer
LenDiff(text) ==
    LET d == WordCount(text) - WordCount(quiz.correct_answer)
    IN  IF d >= 0 THEN d ELSE 0 - d

\* positions of the distractors among the choices
Distractors == {k \in 1..Len(quiz.choices) : quiz.choices[k] # quiz.correct_answer}

\* C22: the distractors of a translation quiz are drawn without replacement
\* from a pool of at most 50 rows that differ from the correct answer and are
\* nearest to it in word count: exactly one choice is the correct answer;
\* there are min(num_choices - 1, pool size) distractors; a text is a
\* distractor no more often than rows carry it; and the rows strictly nearer
\* than the farthest distractor, together with the distractors as far as it,
\* fit into the pool (so some pool closed under "nearer" holds them all).
C22_DistractorPool ==
    (quiz.outcome = "dict" /\ quiz.type \in {"kr_to_en", "en_to_kr"})
        => LET pool_size == Min(PoolSize, Cardinality(OtherRows))
               farthest == CHOOSE d \in {LenDiff(quiz.choices[k]) : k \in Distractors} :
                               \A k \in Distractors : LenDiff(quiz.choices[k]) <= d
           IN  /\ Cardinality({k \in 1..Len(quiz.choices) :
                                  quiz.choices[k] = quiz.correct_answer}) = 1
               /\ Cardinality(Distractors) = Min(NumChoices - 1, pool_size)
               /\ \A k \in Distractors :
                      Cardinality({j \in Distractors : quiz.choices[j] = quiz.choices[k]})
                          <= Cardinality({r \in OtherRows :
                                             corpus[r][ChoiceColumn] = quiz.choices[k]})
               /\ Distractors # {} =>
                      Cardinality({r \in OtherRows :
                                      LenDiff(corpus[r][ChoiceColumn]) < farthest})
                      + Cardinality({k \in Distractors :
                                        LenDiff(quiz.choices[k]) = farthest})
                          <= pool_size

\* more than 50 rows differ from the answer and a distractor comes from the
\* rows that tie for the last place of the pool
C22_Witness ==
    /\ quiz.outcome = "dict" /\ quiz.type = "kr_to_en"
    /\ Cardinality(OtherRows) > PoolSize
    /\ Len(quiz.choices) = NumChoices
    /\ \E k \in Distractors : quiz.choices[k] = RowHi["clean_subtitle"]

\* C24: every answer submitted on the quiz page is subsequently reported to
\* the review store: by the time the answered quiz has been replaced by the
\* next one or closed, a review has been recorded and the file written.
C24_AnswerReported ==
    (quiz_state.total > 0 /\ ~quiz_state.answered)
        => (statistics.total_reviews > 0 /\ disk.state = "written")

\* the quiz page never writes to the review store
C24_StoreUntouched ==
    [][expressions' = expressions /\ statistics' = statistics /\ disk' = disk]_vars

\* C30: in every session state 0 <= score <= total; score and total change
\* only in a submit, taken while a current quiz exists and answered is false;
\* the submit sets answered, adds 1 to total and adds 1 to score exactly when
\* the selected index is correct_index; next and quit leave both unchanged.
C30_SessionCounters ==
    [][/\ 0 <= quiz_state'.score
       /\ quiz_state'.score <= quiz_state'.total
       /\ (quiz_state'.total # quiz_state.total \/ quiz_state'.score # quiz_state.score)
              => /\ quiz_state.current_quiz.outcome = "dict"
                 /\ ~quiz_state.answered
                 /\ quiz_state'.event = "submit"
                 /\ quiz_state'.answered
                 /\ quiz_state'.current_quiz = quiz_state.current_quiz
                 /\ quiz_state'.total = quiz_state.total + 1
                 /\ quiz_state'.score =
                        quiz_state.score +
                        (IF quiz_state'.quiz_answer = quiz_state.current_quiz.correct_index
                         THEN 1 ELSE 0)
       /\ (quiz_state'.event = "submit" /\ quiz_state' # quiz_state)
              => quiz_state'.total = quiz_state.total + 1
      ]_vars

\* two answers were submitted, one right and one wrong, and the page moved on
C30_Witness ==
    /\ quiz_state.total = 2
    /\ quiz_state.score = 1
    /\ quiz_state.event \in {"next", "quit"}

\* C25: every stored record has interval >= 1; a record with 0 or 1
\* repetitions has interval 1, one with 2 repetitions has interval 6, and one
\* with 3 or more repetitions has interval >= 8.
C25_IntervalTiers ==
    \A id \in Known :
        LET expr == expressions[id]
        IN  /\ expr.interval >= 1
            /\ expr.repetitions \in {0, 1} => expr.interval = 1
            /\ expr.repetitions = 2 => expr.interval = 6
            /\ expr.repetitions >= 3 => expr.interval >= 8

\* the third pass in a row at the lowest ease the bound reaches: round(6 * 1.38)
C25_Witness ==
    \E id \in Known :
        /\ expressions[id].repetitions = 3
        /\ expressions[id].interval = 8

\* C26: a passing review (quality >= 3) that follows a passing review of the
\* same record never stores a smaller interval than the record had.
C26_PassingRunGrows ==
    [][\A id \in Known :
           LET history == expressions[id].quality_history
           IN  (/\ Reviewed(id)
                /\ result'.quality >= PassQuality
                /\ history # <<>>
                /\ history[Len(history)] >= PassQuality)
                   => expressions'[id].interval >= expressions[id].interval]_vars

\* a run of four passes whose intervals went 1, 6 and on to more than one step
C26_Witness ==
    \E id \in Known :
        /\ TrailingPasses(expressions[id].quality_history) >= 4
        /\ expressions[id].interval > 8
        /\ expressions[id].ease_factor < DefaultEase

\* C27: total_reviews is the sum of the lengths of all quality histories and
\* total_expressions is the number of records.
C27_StatisticsCount ==
    /\ statistics.total_reviews =
           SumOver([id \in Known |-> Len(expressions[id].quality_history)], Known)
    /\ statistics.total_expressions = Cardinality(Known)

\* two records, both reviewed
C27_Witness ==
    /\ Cardinality(Known) = 2
    /\ \A id \in Known : expressions[id].quality_history # <<>>

\* C28: a record_review of id changes only the scheduling fields of that
\* record and the statistics: its text, created_at and metadata are kept, no
\* other record changes, no record is added or removed, and
\* total_expressions stays as it was.
C28_ReviewFrame ==
    [][\A id \in Known :
           Reviewed(id)
               => /\ DOMAIN expressions' = Known
                  /\ expr_order' = expr_order
                  /\ expressions'[id].text = expressions[id].text
                  /\ expressions'[id].created_at = expressions[id].created_at
                  /\ expressions'[id].metadata = expressions[id].metadata
                  /\ \A o \in Known \ {id} : expressions'[o] = expressions[o]
                  /\ statistics'.total_expressions = statistics.total_expressions]_vars

\* a record created on one day and reviewed on a later one, beside a second
\* record that was not reviewed
C28_Witness ==
    \E id \in Known, o \in Known :
        /\ o # id
        /\ expressions[id].last_review # NoDate
        /\ expressions[id].last_review > expressions[id].created_at
        /\ expressions[o].quality_history = <<>>
        /\ result.op = "record_review"
        /\ result.id = id
        /\ result.status = "ok"

\* the due list returned by the step holds id
InDue(id) == \E k \in 1..Len(result'.due) : result'.due[k].id = id

\* the date the step's due list was computed for
DueTarget == IF result'.date = NoDate THEN today ELSE result'.date

\* the due list of the step treats id as the claim of C29 says
DueAsScheduled(id) ==
    LET expr == expressions[id]
    IN  IF expr.last_review # NoDate
        THEN DueTarget >= expr.last_review
                 => (InDue(id) <=> DueTarget >= expr.last_review + expr.interval)
        ELSE DueTarget = expr.created_at => InDue(id)

\* C29: a due list computed for a day from the review day d of a record on
\* holds the record exactly when that day is at least d + interval, until the
\* record is reviewed again; a record never reviewed is in the due list of
\* its creation day.
C29_DueAfterInterval ==
    [][Called("get_due_expressions") => \A id \in Known : DueAsScheduled(id)]_vars

\* the same for the records whose review read one day at both clock reads
C29_DueWithinOneDay ==
    [][Called("get_due_expressions")
           => \A id \in Known :
                  (expressions[id].last_review # NoDate
                       => expressions[id].next_review
                              = expressions[id].last_review + expressions[id].interval)
                      => DueAsScheduled(id)]_vars

====
